---------------------------- MODULE Spec2Model ----------------------------
(***************************************************************************)
(* Model of the k-nearest-neighbour solver of nearby.cpp / nearby.h: the   *)
(* KD-tree of topics, the two ordered result sets, and the query driver.   *)
(*                                                                         *)
(* Coordinates are integers counted in units of EPSILON (1e-3), and a      *)
(* distance is carried as its square, so that every comparison of the      *)
(* source (which works on hypot() results) is decided exactly.             *)
(*                                                                         *)
(* A std::set is carried as the search tree the library keeps.  The two    *)
(* comparators of the program are not strict weak orderings, so what the   *)
(* set operations do is left open by the language; impl is the standard    *)
(* library the program was built with, which decides it.                   *)
(***************************************************************************)
EXTENDS Integers, Sequences, FiniteSets, TLC

\* ------------------------------------------------------------- bounds
MaxTopics == 3
MaxQuestions == 3
MaxX == 2
MaxY == 1
MaxK == 3
MaxQueries == 2
MaxSmall == 2

\* EPSILON of nearby.h; the grid unit of the model is one EPSILON.
EPSILON == 1

NULL == 0

TopicIds == 1..MaxTopics
QuestionIds == 1..MaxQuestions
Grid == (0..MaxX) \X (0..MaxY)
Line == (0..MaxX) \X {0}

VARIABLES
  impl,                 \* the standard library's std::set (see above)
  pc,                   \* position in solve()
  T, Q,                 \* the counts read at the head of the input
  topics,               \* unordered_map<int, Topic> topics
  questions,            \* unordered_map<int, Question> questions (its keys)
  kdtree,               \* the nodes of the KD-tree; the root is node 1
  queryType,            \* 't' or 'q' of the query being answered
  numResults,
  queryPosition,
  topicSet,             \* set<Topic>, a tree of topic ids
  questionSet,          \* set<Question>, a tree of question ids
  closestQuestionTopic, \* unordered_map<int, int>
  stack,                \* the active calls of kNNTopics / kNNQuestions
  N,                    \* the queries still to be read
  output                \* the line printed for the current query

vars == <<impl, pc, T, Q, topics, questions, kdtree, queryType, numResults,
          queryPosition, topicSet, questionSet, closestQuestionTopic, stack,
          N, output>>

\* ------------------------------------------------------------ numbers

Sq(a) == a * a

\* hypot(x1 - x2, y1 - y2), squared.
Hypot2(x1, y1, x2, y2) == Sq(x1 - x2) + Sq(y1 - y2)

\* compareDouble(a, b) for a = sqrt(a2), b = sqrt(b2):
\*   a - b > EPSILON  <=>  a2 - b2 - EPSILON^2 > 2 * EPSILON * b.
compareDouble(a2, b2) ==
  LET r == a2 - b2 - Sq(EPSILON)
  IN  r > 0 /\ Sq(r) > 4 * Sq(EPSILON) * b2

\* fabs(a - b) <= EPSILON on the same representation.
WithinEpsilon(a2, b2) == ~compareDouble(a2, b2) /\ ~compareDouble(b2, a2)

\* -------------------------------------------------------------- Topic

\* A default-constructed Topic (id 0 at the origin, no questions).
DefaultTopic == [id |-> 0, x |-> 0, y |-> 0, questionIds |-> <<>>]

\* topics[id]: operator[] yields a default Topic for a missing key.
TopicAt(id) == IF id \in DOMAIN topics THEN topics[id] ELSE DefaultTopic

coordinateAt(t, dimension) == IF dimension = 0 THEN t.x ELSE t.y

\* The distance (squared) of a topic to the active query coordinate.
TopicDist2(id) ==
  Hypot2(TopicAt(id).x, TopicAt(id).y, queryPosition[1], queryPosition[2])

\* ------------------------------------------------------------- KDTree

Node(topic) == [topic |-> topic, left |-> NULL, right |-> NULL]

root == IF Len(kdtree) = 0 THEN NULL ELSE 1

insertGoesLeftOnX(topic, nodeTopic, depth) ==
  coordinateAt(topic, 0) < coordinateAt(nodeTopic, 0)

insertGoesLeft(topic, nodeTopic, depth) ==
  coordinateAt(topic, depth % 2) < coordinateAt(nodeTopic, depth % 2)

RECURSIVE insert(_, _, _, _)
insert(tree, currentNode, depth, topic) ==
  IF currentNode = NULL
    THEN Append(tree, Node(topic))
    ELSE LET side == IF insertGoesLeft(topic, tree[currentNode].topic, depth)
                       THEN "left" ELSE "right"
             child == tree[currentNode][side]
             sub == insert(tree, child, depth + 1, topic)
         IN  IF child = NULL
               THEN [sub EXCEPT ![currentNode][side] = Len(sub)]
               ELSE sub

\* ------------------------------------------------------------ std::set
\* A set is the red-black tree the library keeps: <<>> when empty, else
\* <<left, key, right>>.  The searches follow the tree, so that what they
\* find under a comparator that is no strict weak ordering is what the
\* library finds.  The shapes are those of a red-black tree for sets of up
\* to four elements (the colours decide nothing there); larger sets are
\* kept within the same height limit.

Min(a, b) == IF a < b THEN a ELSE b

EmptySet == <<>>

Left(t) == t[1]
Key(t) == t[2]
Right(t) == t[3]

RECURSIVE Size(_)
Size(t) == IF t = EmptySet THEN 0 ELSE Size(Left(t)) + 1 + Size(Right(t))

RECURSIVE Height(_)
Height(t) ==
  IF t = EmptySet THEN 0
  ELSE 1 + (IF Height(Left(t)) > Height(Right(t)) THEN Height(Left(t))
                                                   ELSE Height(Right(t)))

\* The elements in the set's order (what iterating begin()..end() yields).
RECURSIVE InOrder(_)
InOrder(t) ==
  IF t = EmptySet THEN <<>>
  ELSE InOrder(Left(t)) \o <<Key(t)>> \o InOrder(Right(t))

\* prev(cend()): the last element.
Last(t) == InOrder(t)[Size(t)]

RECURSIVE BuildBalanced(_)
BuildBalanced(s) ==
  IF Len(s) = 0 THEN EmptySet
  ELSE LET m == (Len(s) + 1) \div 2
       IN  <<BuildBalanced(SubSeq(s, 1, m - 1)), s[m],
             BuildBalanced(SubSeq(s, m + 1, Len(s)))>>

\* The height a red-black tree of n nodes stays within.
MaxHeight(n) == IF n <= 1 THEN n ELSE IF n <= 3 THEN 2 ELSE 3

\* _Rb_tree_insert_and_rebalance / _Rb_tree_rebalance_for_erase: the
\* rotations that bring the tree back within the height limit.
Rebalance(t) ==
  IF Height(t) > MaxHeight(Size(t)) THEN BuildBalanced(InOrder(t)) ELSE t

\* In the operators below lt[<<a, b>>] is the set's comparator on (a, b);
\* positions count the elements in order from 1, Size + 1 being end().

\* The descent of insert: the number of elements before the place found
\* and the elements compared with the key on the way.
RECURSIVE InsertPlace(_, _, _)
InsertPlace(t, k, lt) ==
  IF t = EmptySet
    THEN [before |-> 0, seen |-> {}]
    ELSE IF lt[<<k, Key(t)>>]
      THEN LET r == InsertPlace(Left(t), k, lt)
           IN  [before |-> r.before, seen |-> r.seen \cup {Key(t)}]
      ELSE LET r == InsertPlace(Right(t), k, lt)
           IN  [before |-> Size(Left(t)) + 1 + r.before,
                seen |-> r.seen \cup {Key(t)}]

\* The tree with k linked as a leaf where that descent ends.
RECURSIVE AttachLeaf(_, _, _)
AttachLeaf(t, k, lt) ==
  IF t = EmptySet
    THEN <<EmptySet, k, EmptySet>>
    ELSE IF lt[<<k, Key(t)>>]
      THEN <<AttachLeaf(Left(t), k, lt), Key(t), Right(t)>>
      ELSE <<Left(t), Key(t), AttachLeaf(Right(t), k, lt)>>

\* libc++ __find_equal: as InsertPlace, but the descent stops at an element
\* that is neither less nor greater than the key.
RECURSIVE FindEqual(_, _, _)
FindEqual(t, k, lt) ==
  IF t = EmptySet
    THEN [found |-> FALSE, seen |-> {}]
    ELSE IF lt[<<k, Key(t)>>]
      THEN LET r == FindEqual(Left(t), k, lt)
           IN  [found |-> r.found, seen |-> r.seen \cup {Key(t)}]
      ELSE IF lt[<<Key(t), k>>]
        THEN LET r == FindEqual(Right(t), k, lt)
             IN  [found |-> r.found, seen |-> r.seen \cup {Key(t)}]
        ELSE [found |-> TRUE, seen |-> {Key(t)}]

\* set::insert(k): [set, seen].
\*   libstdc++ (_M_get_insert_unique_pos): descend; insert unless the element
\*   before the place found is not less than the key.
\*   libc++ (__find_equal): descend; insert unless an equal element is met.
SetInsert(t, k, lt) ==
  IF impl = "libstdc++"
    THEN LET p == InsertPlace(t, k, lt)
         IN  IF p.before = 0 \/ lt[<<InOrder(t)[p.before], k>>]
               THEN [set |-> Rebalance(AttachLeaf(t, k, lt)), seen |-> p.seen]
               ELSE [set |-> t, seen |-> p.seen]
    ELSE LET f == FindEqual(t, k, lt)
         IN  IF f.found
               THEN [set |-> t, seen |-> f.seen]
               ELSE [set |-> Rebalance(AttachLeaf(t, k, lt)), seen |-> f.seen]

\* The smallest element of a non-empty tree, and the tree without it.
RECURSIVE Leftmost(_)
Leftmost(t) == IF Left(t) = EmptySet THEN Key(t) ELSE Leftmost(Left(t))

RECURSIVE WithoutLeftmost(_)
WithoutLeftmost(t) ==
  IF Left(t) = EmptySet THEN Right(t)
  ELSE <<WithoutLeftmost(Left(t)), Key(t), Right(t)>>

\* The tree without the node at position i: a node with two children gives
\* its place to its successor.
RECURSIVE Unlink(_, _)
Unlink(t, i) ==
  LET here == Size(Left(t)) + 1
  IN  IF i < here THEN <<Unlink(Left(t), i), Key(t), Right(t)>>
      ELSE IF i > here THEN <<Left(t), Key(t), Unlink(Right(t), i - here)>>
      ELSE IF Left(t) = EmptySet THEN Right(t)
      ELSE IF Right(t) = EmptySet THEN Left(t)
      ELSE <<Left(t), Leftmost(Right(t)), WithoutLeftmost(Right(t))>>

\* set::erase(iterator) at position i.
EraseAt(t, i) == Rebalance(Unlink(t, i))

\* set::erase(first, last): the positions from..to-1, one node at a time.
RECURSIVE EraseRange(_, _, _)
EraseRange(t, from, to) ==
  IF from >= to THEN t ELSE EraseRange(EraseAt(t, from), from, to - 1)

\* _M_lower_bound(x, y, k) on the subtree t whose first element has
\* position base + 1; y is the position returned when nothing is found.
RECURSIVE LowerBound(_, _, _, _, _)
LowerBound(t, k, lt, base, y) ==
  IF t = EmptySet
    THEN [pos |-> y, seen |-> {}]
    ELSE LET here == base + Size(Left(t)) + 1
             r == IF ~lt[<<Key(t), k>>]
                    THEN LowerBound(Left(t), k, lt, base, here)
                    ELSE LowerBound(Right(t), k, lt, here, y)
         IN  [pos |-> r.pos, seen |-> r.seen \cup {Key(t)}]

\* _M_upper_bound(x, y, k).
RECURSIVE UpperBound(_, _, _, _, _)
UpperBound(t, k, lt, base, y) ==
  IF t = EmptySet
    THEN [pos |-> y, seen |-> {}]
    ELSE LET here == base + Size(Left(t)) + 1
             r == IF lt[<<k, Key(t)>>]
                    THEN UpperBound(Left(t), k, lt, base, here)
                    ELSE UpperBound(Right(t), k, lt, here, y)
         IN  [pos |-> r.pos, seen |-> r.seen \cup {Key(t)}]

\* libstdc++ equal_range(k): the positions [from, to) it returns.
RECURSIVE EqualRange(_, _, _, _, _)
EqualRange(t, k, lt, base, y) ==
  IF t = EmptySet
    THEN [from |-> y, to |-> y, seen |-> {}]
    ELSE LET here == base + Size(Left(t)) + 1
         IN  IF lt[<<Key(t), k>>]
               THEN LET r == EqualRange(Right(t), k, lt, here, y)
                    IN  [r EXCEPT !.seen = @ \cup {Key(t)}]
               ELSE IF lt[<<k, Key(t)>>]
                 THEN LET r == EqualRange(Left(t), k, lt, base, here)
                      IN  [r EXCEPT !.seen = @ \cup {Key(t)}]
                 ELSE LET l == LowerBound(Left(t), k, lt, base, here)
                          u == UpperBound(Right(t), k, lt, here, y)
                      IN  [from |-> l.pos, to |-> u.pos,
                           seen |-> l.seen \cup u.seen \cup {Key(t)}]

\* set::erase(key): [set, seen].
\*   libstdc++: erases equal_range(key).
\*   libc++ (__erase_unique): erases find(key), which is lower_bound(key)
\*   when the key is not less than it.
SetEraseKey(t, k, lt) ==
  IF impl = "libstdc++"
    THEN LET r == EqualRange(t, k, lt, 0, Size(t) + 1)
         IN  [set |-> EraseRange(t, r.from, r.to), seen |-> r.seen]
    ELSE LET l == LowerBound(t, k, lt, 0, Size(t) + 1)
         IN  IF l.pos <= Size(t) /\ ~lt[<<k, InOrder(t)[l.pos]>>]
               THEN [set |-> EraseAt(t, l.pos),
                     seen |-> l.seen \cup {InOrder(t)[l.pos]}]
               ELSE [set |-> t, seen |-> l.seen]

\* ------------------------------------------------------ the comparators

\* operator< (Topic, Topic): nearer to the query first; distances within
\* EPSILON are ordered by the larger id first.
TopicLess(topic1, topic2) ==
  LET dist1 == TopicDist2(topic1)
      dist2 == TopicDist2(topic2)
  IN  IF compareDouble(dist1, dist2) THEN FALSE
      ELSE IF compareDouble(dist2, dist1) THEN TRUE
      ELSE topic1 > topic2

\* closestQuestionTopic[q] as the comparator reads it: operator[] yields 0
\* (and creates the entry) for a question that has none.
Associated(cqt, q) == IF q \in DOMAIN cqt THEN cqt[q] ELSE 0

\* operator< (Question, Question) under the mapping cqt.
QuestionLess(cqt, question1, question2) ==
  LET dist1 == TopicDist2(Associated(cqt, question1))
      dist2 == TopicDist2(Associated(cqt, question2))
  IN  IF compareDouble(dist1, dist2) THEN FALSE
      ELSE IF compareDouble(dist2, dist1) THEN TRUE
      ELSE question1 > question2

TopicLt == [p \in TopicIds \X TopicIds |-> TopicLess(p[1], p[2])]

QuestionLt(cqt) ==
  [p \in QuestionIds \X QuestionIds |-> QuestionLess(cqt, p[1], p[2])]

\* The entries the comparator's operator[] calls leave behind: every
\* question it was evaluated on now has an entry (0 when it had none).
Touch(cqt, seen) ==
  [q \in DOMAIN cqt \cup seen |-> IF q \in DOMAIN cqt THEN cqt[q] ELSE 0]

\* ----------------------------------------------------- per-node steps

\* while (size > numResults) erase(prev(cend()))
RECURSIVE Trim(_, _)
Trim(t, k) == IF Size(t) > k THEN Trim(EraseAt(t, Size(t)), k) ELSE t

\* kNNTopics, lines 77-80: insert the node's topic, then trim.
TopicNodeStep(set, topicId) ==
  Trim(SetInsert(set, topicId, TopicLt).set, numResults)

\* kNNQuestions, lines 134-136: the visited topic (newId, at dist2) replaces
\* the recorded one (oldId, at dist1).
ShouldReplace(dist1, dist2, newId, oldId) ==
  \/ compareDouble(dist1, dist2)
  \/ (WithinEpsilon(dist1, dist2) /\ newId > oldId)

\* kNNQuestions, lines 120-141, for one question of the visited topic.
\* st = [qs |-> questionSet, cqt |-> closestQuestionTopic].
QuestionStep(st, questionIndex, topicId) ==
  IF questionIndex \notin DOMAIN st.cqt
    THEN LET cqt1 == st.cqt @@ (questionIndex :> topicId)
             ins == SetInsert(st.qs, questionIndex, QuestionLt(cqt1))
         IN  [qs |-> ins.set, cqt |-> Touch(cqt1, ins.seen)]
    ELSE LET old == st.cqt[questionIndex]
         IN  IF ShouldReplace(TopicDist2(old), TopicDist2(topicId), topicId, old)
               THEN LET era == SetEraseKey(st.qs, questionIndex, QuestionLt(st.cqt))
                        cqt1 == [Touch(st.cqt, era.seen)
                                   EXCEPT ![questionIndex] = topicId]
                        ins == SetInsert(era.set, questionIndex, QuestionLt(cqt1))
                    IN  [qs |-> ins.set, cqt |-> Touch(cqt1, ins.seen)]
               ELSE st

RECURSIVE QuestionLoop(_, _, _, _)
QuestionLoop(st, questionIds, i, topicId) ==
  IF i > Len(questionIds)
    THEN st
    ELSE QuestionLoop(QuestionStep(st, questionIds[i], topicId),
                      questionIds, i + 1, topicId)

\* kNNQuestions, lines 144-148: evict the last question and its entry until
\* at most numResults are left.
RECURSIVE QuestionTrim(_)
QuestionTrim(st) ==
  IF Size(st.qs) > numResults
    THEN LET last == Last(st.qs)
         IN  QuestionTrim([qs |-> EraseAt(st.qs, Size(st.qs)),
                           cqt |-> [q \in DOMAIN st.cqt \ {last} |-> st.cqt[q]]])
    ELSE st

\* kNNQuestions, lines 119-148.
QuestionNodeStep(st, topicId) ==
  QuestionTrim(QuestionLoop(st, TopicAt(topicId).questionIds, 1, topicId))

\* Lines 84-91 / 152-159: the child on the query's side is visited first.
QueryGoesLeft(n, depth) ==
  queryPosition[(depth % 2) + 1] < coordinateAt(n.topic, depth % 2)

firstNode(n, depth) == IF QueryGoesLeft(n, depth) THEN n.left ELSE n.right

secondNode(n, depth) == IF QueryGoesLeft(n, depth) THEN n.right ELSE n.left

\* fabs(queryPosition[depthParity] - coordinateAt(depthParity)), squared.
PlaneDist2(n, depth) ==
  Sq(queryPosition[(depth % 2) + 1] - coordinateAt(n.topic, depth % 2))

\* kNNTopics, lines 97-110: whether the far child is visited.
TopicsVisitSecond(set, n, depth) ==
  IF Size(set) < numResults
    THEN TRUE
    ELSE IF Size(set) # 0
      THEN PlaneDist2(n, depth) < TopicDist2(Last(set))
      ELSE FALSE

\* kNNQuestions, lines 165-179: whether the far child is visited.
QuestionsVisitSecond(st, n, depth) ==
  IF Size(st.qs) < numResults
    THEN TRUE
    ELSE IF Size(st.qs) # 0
      THEN PlaneDist2(n, depth)
             < TopicDist2(Associated(st.cqt, Last(st.qs)))
      ELSE FALSE

\* Line 169: closestQuestionTopic[iter->getId()] creates a missing entry.
AfterSecondTest(st) ==
  IF Size(st.qs) >= numResults /\ Size(st.qs) # 0
    THEN [st EXCEPT !.cqt = Touch(st.cqt, {Last(st.qs)})]
    ELSE st

\* topics[0] exists once a comparator or the pruning test looked up the
\* topic of an entry that is 0.
WithDefaultTopic(tops, cqt) ==
  IF (\E q \in DOMAIN cqt : cqt[q] = 0) /\ 0 \notin DOMAIN tops
    THEN tops @@ (0 :> DefaultTopic)
    ELSE tops

\* ------------------------------------------------------------- solve()

\* Where solve() stands once nt topics and nq questions have been read and
\* n queries are still to come.
Phase(nt, nq, n) ==
  IF nt < T THEN "topics"
  ELSE IF nq < Q THEN "questions"
  ELSE IF n > 0 THEN "queries"
  ELSE "done"

\* The value of output while the current query has printed nothing.
NotPrinted == <<-1>>

Impls == {"libstdc++", "libc++"}

InitWith(Ts, Qs, Ns, Is) ==
  /\ impl \in Is
  /\ T \in Ts
  /\ Q \in Qs
  /\ N \in Ns
  /\ topics = <<>>
  /\ questions = {}
  /\ kdtree = <<>>
  /\ queryType = "t"
  /\ numResults = 0
  /\ queryPosition = <<0, 0>>
  /\ topicSet = EmptySet
  /\ questionSet = EmptySet
  /\ closestQuestionTopic = <<>>
  /\ stack = <<>>
  /\ output = NotPrinted
  /\ pc = Phase(0, 0, N)

\* solve(), lines 262-265: inputTopic() and kdtree.insert(currentTopic).
InputTopic(Ids, Coords) ==
  /\ pc = "topics"
  /\ \E id \in Ids, c \in Coords :
       LET topic == [id |-> id, x |-> c[1], y |-> c[2]]
       IN  /\ topics' = topics @@ (id :> [id |-> id, x |-> c[1], y |-> c[2],
                                          questionIds |-> <<>>])
           /\ kdtree' = insert(kdtree, root, 0, topic)
           /\ pc' = Phase(Cardinality(DOMAIN topics) + 1, 0, N)
  /\ UNCHANGED <<impl, T, Q, N, questions, queryType, numResults,
                 queryPosition, topicSet, questionSet, closestQuestionTopic,
                 stack, output>>

\* solve(), lines 267-269: inputQuestion(); operator>> appends the question's
\* id to the list of every topic it names (topicIds, existing and distinct).
InputQuestion(Ids, Lists) ==
  /\ pc = "questions"
  /\ \E id \in Ids, topicIds \in Lists :
       /\ topics' = [t \in DOMAIN topics |->
                       IF t \in topicIds
                         THEN [topics[t] EXCEPT
                                 !.questionIds = Append(@, id)]
                         ELSE topics[t]]
       /\ questions' = questions \cup {id}
       /\ pc' = Phase(T, Cardinality(questions) + 1, N)
  /\ UNCHANGED <<impl, T, Q, N, kdtree, queryType, numResults, queryPosition,
                 topicSet, questionSet, closestQuestionTopic, stack, output>>

\* The call kNNTopics(node, depth, ...) / kNNQuestions(node, depth, ...):
\* a call on nullptr returns at once.
Call(stk, node, depth) ==
  IF node = NULL
    THEN stk
    ELSE Append(stk, [node |-> node, depth |-> depth, at |-> "enter"])

Pop(stk) == SubSeq(stk, 1, Len(stk) - 1)

Top == stack[Len(stack)]

ClearedNot(set) == set

\* set::clear() / unordered_map::clear()
Cleared(set) == <<>>

\* solve(), lines 272-284: read the query, clear the result set of its type
\* and start the traversal at the root.
StartQuery(Types, Positions) ==
  /\ pc = "queries"
  /\ \E type \in Types, k \in 0..MaxK, pos \in Positions :
       /\ queryType' = type
       /\ numResults' = k
       /\ queryPosition' = pos
       /\ IF type = "t"
            THEN /\ topicSet' = Cleared(topicSet)
                 /\ UNCHANGED <<questionSet, closestQuestionTopic>>
            ELSE /\ questionSet' = Cleared(questionSet)
                 /\ closestQuestionTopic' = Cleared(closestQuestionTopic)
                 /\ UNCHANGED topicSet
  /\ N' = N - 1
  /\ stack' = Call(<<>>, root, 0)
  /\ output' = NotPrinted
  /\ pc' = "knn"
  /\ UNCHANGED <<impl, T, Q, topics, questions, kdtree>>

\* kNNTopics, lines 73-93: the node's own step and the call on the near child.
TopicsEnter ==
  /\ pc = "knn" /\ queryType = "t"
  /\ stack # <<>> /\ Top.at = "enter"
  /\ LET n == kdtree[Top.node]
     IN  /\ topicSet' = TopicNodeStep(topicSet, n.topic.id)
         /\ stack' = Call([stack EXCEPT ![Len(stack)].at = "second"],
                          firstNode(n, Top.depth), Top.depth + 1)
  /\ UNCHANGED <<impl, pc, T, Q, N, topics, questions, kdtree, queryType,
                 numResults, queryPosition, questionSet,
                 closestQuestionTopic, output>>

\* kNNTopics, lines 97-111: the far child, unless pruned; then return.
TopicsSecond ==
  /\ pc = "knn" /\ queryType = "t"
  /\ stack # <<>> /\ Top.at = "second"
  /\ LET n == kdtree[Top.node]
     IN  stack' = IF TopicsVisitSecond(topicSet, n, Top.depth)
                    THEN Call(Pop(stack), secondNode(n, Top.depth),
                              Top.depth + 1)
                    ELSE Pop(stack)
  /\ UNCHANGED <<impl, pc, T, Q, N, topics, questions, kdtree, queryType,
                 numResults, queryPosition, topicSet, questionSet,
                 closestQuestionTopic, output>>

\* kNNQuestions, lines 115-161.
QuestionsEnter ==
  /\ pc = "knn" /\ queryType = "q"
  /\ stack # <<>> /\ Top.at = "enter"
  /\ LET n == kdtree[Top.node]
         st == QuestionNodeStep([qs |-> questionSet,
                                 cqt |-> closestQuestionTopic], n.topic.id)
     IN  /\ questionSet' = st.qs
         /\ closestQuestionTopic' = st.cqt
         /\ topics' = WithDefaultTopic(topics, st.cqt)
         /\ stack' = Call([stack EXCEPT ![Len(stack)].at = "second"],
                          firstNode(n, Top.depth), Top.depth + 1)
  /\ UNCHANGED <<impl, pc, T, Q, N, questions, kdtree, queryType,
                 numResults, queryPosition, topicSet, output>>

\* kNNQuestions, lines 165-180.
QuestionsSecond ==
  /\ pc = "knn" /\ queryType = "q"
  /\ stack # <<>> /\ Top.at = "second"
  /\ LET n == kdtree[Top.node]
         st == [qs |-> questionSet, cqt |-> closestQuestionTopic]
     IN  /\ stack' = IF QuestionsVisitSecond(st, n, Top.depth)
                       THEN Call(Pop(stack), secondNode(n, Top.depth),
                                 Top.depth + 1)
                       ELSE Pop(stack)
         /\ closestQuestionTopic' = AfterSecondTest(st).cqt
         /\ topics' = WithDefaultTopic(topics, AfterSecondTest(st).cqt)
  /\ UNCHANGED <<impl, pc, T, Q, N, questions, kdtree, queryType,
                 numResults, queryPosition, topicSet, questionSet, output>>

\* printSet(), lines 245-254, and the end of the loop body of solve().
PrintSet ==
  /\ pc = "knn"
  /\ stack = <<>>
  /\ output' = IF queryType = "t" THEN InOrder(topicSet)
                                    ELSE InOrder(questionSet)
  /\ pc' = Phase(T, Q, N)
  /\ UNCHANGED <<impl, T, Q, N, topics, questions, kdtree, queryType,
                 numResults, queryPosition, topicSet, questionSet,
                 closestQuestionTopic, stack>>

\* The ids a record of the input may carry: any id not read yet, or the
\* next one in increasing order.
FreeTopicIds == (1..T) \ DOMAIN topics
NextTopicId == {Cardinality(DOMAIN topics) + 1}
FreeQuestionIds == (1..Q) \ questions
NextQuestionId == {Cardinality(questions) + 1}

\* Topic queries over a 2-D index without questions.
InitTopics == InitWith(0..MaxTopics, {0}, {1}, Impls)

NextTopics ==
  \/ InputTopic(FreeTopicIds, Grid)
  \/ StartQuery({"t"}, Grid)
  \/ TopicsEnter
  \/ TopicsSecond
  \/ PrintSet

SpecTopics == InitTopics /\ [][NextTopics]_vars

\* Question queries over a 2-D index of at most MaxSmall topics and
\* questions.
InitQuestions == InitWith(0..MaxSmall, 0..MaxSmall, {1}, Impls)

NextQuestions ==
  \/ InputTopic(FreeTopicIds, Grid)
  \/ InputQuestion(FreeQuestionIds, SUBSET DOMAIN topics)
  \/ StartQuery({"q"}, Grid)
  \/ QuestionsEnter
  \/ QuestionsSecond
  \/ PrintSet

SpecQuestions == InitQuestions /\ [][NextQuestions]_vars

UsedCoords == {<<topics[t].x, topics[t].y>> : t \in DOMAIN topics}

\* Question queries over MaxTopics topics at distinct places of a line, each
\* of MaxQuestions questions naming at least one topic; ids are read in
\* increasing order.
InitSync == InitWith({MaxTopics}, {MaxQuestions}, {1}, Impls)

NextSync ==
  \/ InputTopic(NextTopicId, Line \ UsedCoords)
  \/ InputQuestion(NextQuestionId, (SUBSET DOMAIN topics) \ {{}})
  \/ StartQuery({"q"}, Line)
  \/ QuestionsEnter
  \/ QuestionsSecond
  \/ PrintSet

SpecSync == InitSync /\ [][NextSync]_vars

\* Topic and question queries from places of a line, MaxQueries in a row,
\* over a small 2-D index; ids are read in increasing order.
InitHistory == InitWith(0..MaxSmall, 0..MaxSmall, {MaxQueries}, Impls)

NextHistory ==
  \/ InputTopic(NextTopicId, Grid)
  \/ InputQuestion(NextQuestionId, SUBSET DOMAIN topics)
  \/ StartQuery({"t", "q"}, Line)
  \/ TopicsEnter
  \/ TopicsSecond
  \/ QuestionsEnter
  \/ QuestionsSecond
  \/ PrintSet

SpecHistory == InitHistory /\ [][NextHistory]_vars

\* ---------------------------------------------- the traversals, recursive

\* kNNTopics(currentNode, depth, queryPosition) run on the result set `set`.
RECURSIVE kNNTopics(_, _, _)
kNNTopics(set, currentNode, depth) ==
  IF currentNode = NULL
    THEN set
    ELSE LET n == kdtree[currentNode]
             near == kNNTopics(TopicNodeStep(set, n.topic.id),
                               firstNode(n, depth), depth + 1)
         IN  IF TopicsVisitSecond(near, n, depth)
               THEN kNNTopics(near, secondNode(n, depth), depth + 1)
               ELSE near

\* kNNQuestions(currentNode, depth, queryPosition) run on st.
RECURSIVE kNNQuestions(_, _, _)
kNNQuestions(st, currentNode, depth) ==
  IF currentNode = NULL
    THEN st
    ELSE LET n == kdtree[currentNode]
             near == kNNQuestions(QuestionNodeStep(st, n.topic.id),
                                  firstNode(n, depth), depth + 1)
         IN  IF QuestionsVisitSecond(near, n, depth)
               THEN kNNQuestions(AfterSecondTest(near),
                                 secondNode(n, depth), depth + 1)
               ELSE AfterSecondTest(near)

\* ------------------------------------------------------------ the claims

Printed == output # NotPrinted

Range(s) == {s[i] : i \in 1..Len(s)}

Distinct(s) == \A i, j \in 1..Len(s) : i # j => s[i] # s[j]

Prefix(s, k) == SubSeq(s, 1, Min(Len(s), k))

\* The orderings of the set S in which every element is less (lt) than all
\* the elements after it.
Rankings(S, lt) ==
  LET n == Cardinality(S)
  IN  {s \in [1..n -> S] :
         /\ \A i, j \in 1..n : i < j => s[i] # s[j] /\ lt[<<s[i], s[j]>>]}

RealTopics == DOMAIN topics \ {0}

\* The topics that list question q.
TopicsOf(q) ==
  {t \in RealTopics : \E i \in 1..Len(topics[t].questionIds) :
                         topics[t].questionIds[i] = q}

Listed == {q \in questions : TopicsOf(q) # {}}

\* The distance (squared) of a question's closest associated topic.
ClosestDist2(q) ==
  CHOOSE d \in {TopicDist2(t) : t \in TopicsOf(q)} :
    \A t \in TopicsOf(q) : d <= TopicDist2(t)

\* The question comparator on the distances of the closest topics.
BruteQuestionLt ==
  [p \in Listed \X Listed |->
     IF compareDouble(ClosestDist2(p[1]), ClosestDist2(p[2])) THEN FALSE
     ELSE IF compareDouble(ClosestDist2(p[2]), ClosestDist2(p[1])) THEN TRUE
     ELSE p[1] > p[2]]

\* C1: a topic query prints the first K ids of the ranking of all topics
\* under the topic comparator.
C1_TopicsBruteForce ==
  (Printed /\ queryType = "t") =>
    \E s \in Rankings(RealTopics, TopicLt) : output = Prefix(s, numResults)

\* C2: a question query prints the first K ids of the ranking of the
\* questions that have a topic, each at the distance of its closest topic,
\* under the question comparator.
C2_QuestionsBruteForce ==
  (Printed /\ queryType = "q") =>
    \E s \in Rankings(Listed, BruteQuestionLt) :
       output = Prefix(s, numResults)

\* C3: when two topics share a coordinate and every other topic is farther
\* from the query by more than EPSILON, a topic query with K = 1 prints the
\* larger of the two ids.
C3_LargerIdWinsTie ==
  (Printed /\ queryType = "t" /\ numResults = 1) =>
    \A a, b \in RealTopics :
      ( /\ a < b
        /\ topics[a].x = topics[b].x /\ topics[a].y = topics[b].y
        /\ \A c \in RealTopics \ {a, b} :
              compareDouble(TopicDist2(c), TopicDist2(a)) )
      => output = <<b>>

\* C4: in the line of a topic query every id is ordered before every later
\* id by the topic comparator (nearer by more than EPSILON, or within
\* EPSILON and the larger id).
C4_TopicOutputOrder ==
  (Printed /\ queryType = "t") =>
    \A i, j \in 1..Len(output) : i < j => TopicLess(output[i], output[j])

\* C5: a topic query prints min(K, T) distinct ids and a question query
\* min(K, Q') distinct ids, Q' the number of questions some topic lists.
C5_Cardinality ==
  Printed =>
    /\ Distinct(output)
    /\ Len(output) = IF queryType = "t"
                       THEN Min(numResults, Cardinality(RealTopics))
                       ELSE Min(numResults, Cardinality(Listed))

\* C6: whatever queries ran before, a query prints what the same query
\* prints when it runs on empty result sets and an empty mapping.
C6_HistoryIndependent ==
  Printed =>
    output = IF queryType = "t"
               THEN InOrder(kNNTopics(EmptySet, root, 0))
               ELSE InOrder(kNNQuestions([qs |-> EmptySet, cqt |-> <<>>],
                                         root, 0).qs)

\* A second query has printed a non-empty line while the other result set
\* still holds what the query before it left there.
C6_Witness ==
  /\ Printed /\ N = 0 /\ output # <<>>
  /\ \/ queryType = "q" /\ topicSet # EmptySet
     \/ queryType = "t" /\ questionSet # EmptySet

\* C7: at the end of a question query every question of the result is
\* mapped to a topic that lists it, and no topic that lists it is closer to
\* the query by more than EPSILON.
C7_RecordedTopicIsClosest ==
  (Printed /\ queryType = "q") =>
    \A q \in Range(InOrder(questionSet)) :
      /\ q \in DOMAIN closestQuestionTopic
      /\ closestQuestionTopic[q] \in TopicsOf(q)
      /\ \A t \in TopicsOf(q) :
            ~compareDouble(TopicDist2(closestQuestionTopic[q]), TopicDist2(t))

\* The nodes of the subtree rooted at node (NULL: none).
RECURSIVE Subtree(_)
Subtree(node) ==
  IF node = NULL
    THEN {}
    ELSE {node} \cup Subtree(kdtree[node].left) \cup Subtree(kdtree[node].right)

\* The depth of node i below the node `from` at depth d (-1: not below it).
RECURSIVE DepthOf(_, _, _)
DepthOf(i, from, d) ==
  IF from = NULL THEN -1
  ELSE IF from = i THEN d
  ELSE IF i \in Subtree(kdtree[from].left)
    THEN DepthOf(i, kdtree[from].left, d + 1)
    ELSE DepthOf(i, kdtree[from].right, d + 1)

\* Left of every node only strictly smaller coordinates on the node's axis,
\* right of it only greater or equal ones, and each topic in exactly one
\* node, reachable from the root.
Partitioned ==
  /\ Subtree(root) = 1..Len(kdtree)
  /\ \A i \in 1..Len(kdtree) :
       LET axis == DepthOf(i, root, 0) % 2
           here == coordinateAt(kdtree[i].topic, axis)
       IN  /\ \A l \in Subtree(kdtree[i].left) :
                coordinateAt(kdtree[l].topic, axis) < here
           /\ \A r \in Subtree(kdtree[i].right) :
                coordinateAt(kdtree[r].topic, axis) >= here
  /\ \A t \in RealTopics :
       Cardinality({i \in 1..Len(kdtree) : kdtree[i].topic.id = t}) = 1
  /\ \A i \in 1..Len(kdtree) :
       /\ kdtree[i].topic.id \in RealTopics
       /\ kdtree[i].topic.x = topics[kdtree[i].topic.id].x
       /\ kdtree[i].topic.y = topics[kdtree[i].topic.id].y

\* No step moves or removes a node: a node keeps its topic and the children
\* it has.
NodesStay ==
  /\ Len(kdtree') >= Len(kdtree)
  /\ \A i \in 1..Len(kdtree) :
       /\ kdtree'[i].topic = kdtree[i].topic
       /\ kdtree[i].left # NULL => kdtree'[i].left = kdtree[i].left
       /\ kdtree[i].right # NULL => kdtree'[i].right = kdtree[i].right

\* C8: the partition invariant of the index holds after every insert, every
\* topic is in exactly one node, and nodes are never moved or removed.
C8_PartitionInvariant == [](Partitioned) /\ [][NodesStay]_vars

\* An index of MaxTopics nodes where two topics share a coordinate and some
\* node below the root has a left child.
C8_Witness ==
  /\ Len(kdtree) = MaxTopics
  /\ \E i, j \in 1..Len(kdtree) :
       /\ i # j
       /\ kdtree[i].topic.x = kdtree[j].topic.x
       /\ kdtree[i].topic.y = kdtree[j].topic.y
  /\ \E i \in 2..Len(kdtree) : kdtree[i].left # NULL

\* C9: during and at the end of a question query the questions of the
\* result set are exactly the keys of the mapping, at most K of them, and no
\* default entry (topic id 0) was ever created by the comparator.
C9_SetAndMappingInSync ==
  (queryType = "q" /\ (pc = "knn" \/ Printed)) =>
    /\ Range(InOrder(questionSet)) = DOMAIN closestQuestionTopic
    /\ Size(questionSet) <= numResults
    /\ \A q \in DOMAIN closestQuestionTopic : closestQuestionTopic[q] # 0
    /\ 0 \notin DOMAIN topics

StrictWeakOrder(S, lt) ==
  \A a, b, c \in S :
    /\ ~lt[<<a, a>>]
    /\ lt[<<a, b>>] => ~lt[<<b, a>>]
    /\ (lt[<<a, b>>] /\ lt[<<b, c>>]) => lt[<<a, c>>]

\* C10: for the query coordinate in force, operator< on the topics and
\* operator< on the mapped questions are strict weak orderings.
C10_StrictWeakOrdering ==
  pc = "knn" =>
    /\ StrictWeakOrder(RealTopics, TopicLt)
    /\ StrictWeakOrder(DOMAIN closestQuestionTopic,
                       QuestionLt(closestQuestionTopic))

=============================================================================
